---- MODULE Spec2Model ----
(***************************************************************************)
(* Model of the filtermatcher package                                      *)
(* (internal/coreinternal/processor/filtermatcher/filtermatcher.go):       *)
(* NewMatcher builds a PropertiesMatcher from a MatchProperties value and  *)
(* Match evaluates it on one record (attributes, resource, scope).         *)
(*                                                                         *)
(* Strings are sequences of one-character strings.  A Go nil is modelled   *)
(* by a value of the same shape: a nil FilterSet is NilFilterSet, a nil    *)
(* AttributesMatcher (a slice type) is the empty sequence, a nil *string   *)
(* is the empty sequence and a non-nil one a one-element sequence, a nil   *)
(* error is NoError.                                                       *)
(***************************************************************************)
EXTENDS Naturals, Sequences, FiniteSets

\* The longest list of library constraints a MatchProperties value holds.
MaxLibs == 2

----------------------------------------------------------------------------
(* Input domains *)

\* filterset match types (mp.Config.MatchType)
MatchTypes == {"strict", "regexp"}

\* Patterns a configuration may hold: a literal, an anchored literal and an
\* expression with a missing closing parenthesis.
Patterns == {<<"a">>, <<"^", "b">>, <<"(">>}

\* Scope names and versions of records.
ScopeStrs == {<<>>, <<"a">>, <<"b", "a">>}

\* Attribute keys and (string) attribute values of records.
Keys == {"k"}
AttrVals == {<<"a">>, <<"b", "a">>}

\* pcommon.Map: a function from the keys present to their values.
EmptyMap == [k \in {} |-> <<>>]
AttrMaps == UNION {[D -> AttrVals] : D \in SUBSET Keys}

\* Sequences over S of length at most n.
SeqUpTo(S, n) == UNION {[1..k -> S] : k \in 0..n}

\* filterconfig.InstrumentationLibrary: Name string, Version *string.
OptVersions == {<<>>, << <<"a">> >>, << <<"(">> >>}
LibraryCfgs == [Name : Patterns, Version : OptVersions]

\* filterconfig.Attribute: Key string, Value (absent: only the key is tested).
\* The lists a configuration may hold: none, a presence test, a value test
\* (valid or not compilable), and a presence test followed by a value test.
KeyPresent == [Key |-> "k", Value |-> <<>>]
KeyValue(p) == [Key |-> "k", Value |-> <<p>>]
AttributeLists ==
    {<<>>, <<KeyPresent>>, <<KeyValue(<<"a">>)>>, <<KeyValue(<<"(">>)>>,
     <<KeyPresent, KeyValue(<<"^", "b">>)>>}

\* filterconfig.MatchProperties
MatchSpecs ==
    [Config : [MatchType : MatchTypes],
     Libraries : SeqUpTo(LibraryCfgs, MaxLibs),
     Attributes : AttributeLists,
     Resources : AttributeLists]

EmptySpec(mt) ==
    [Config |-> [MatchType |-> mt], Libraries |-> <<>>,
     Attributes |-> <<>>, Resources |-> <<>>]

\* One record handed to Match.
Records ==
    [attributes : AttrMaps, resource : AttrMaps,
     library : [Name : ScopeStrs, Version : ScopeStrs]]

----------------------------------------------------------------------------
(* filterset: compiled string predicates *)

NoCause == [msg |-> "", pattern |-> <<>>]
NoError == [ctx |-> "", cause |-> NoCause]
NilFilterSet == [kind |-> "nil", patterns |-> <<>>]

\* regexp.Compile fails on an unbalanced parenthesis.
RegexpValid(p) == \A i \in 1..Len(p) : p[i] # "("

\* Whether the expression p matches v starting at offset s (0-based): "^"
\* holds only at the beginning of the text, a literal consumes one character.
RECURSIVE RegexpMatchAt(_, _, _, _)
RegexpMatchAt(p, i, v, pos) ==
    IF i > Len(p) THEN TRUE
    ELSE IF p[i] = "^" THEN pos = 0 /\ RegexpMatchAt(p, i + 1, v, pos)
    ELSE pos < Len(v) /\ v[pos + 1] = p[i] /\ RegexpMatchAt(p, i + 1, v, pos + 1)

\* Unanchored search.
RegexpSearch(p, v) == \E s \in 0..Len(v) : RegexpMatchAt(p, 1, v, s)

\* The first pattern of filters that does not compile.
FirstInvalid(filters) ==
    filters[CHOOSE i \in 1..Len(filters) :
                /\ ~RegexpValid(filters[i])
                /\ \A j \in 1..(i - 1) : RegexpValid(filters[j])]

\* filterset.CreateFilterSet(filters, cfg): the FilterSet and the error.
CreateFilterSet(filters, cfg) ==
    IF cfg.MatchType = "strict"
    THEN [fs |-> [kind |-> "strict", patterns |-> filters], err |-> NoCause]
    ELSE IF \A i \in 1..Len(filters) : RegexpValid(filters[i])
    THEN [fs |-> [kind |-> "regexp", patterns |-> filters], err |-> NoCause]
    ELSE [fs |-> NilFilterSet,
          err |-> [msg |-> "error parsing regexp", pattern |-> FirstInvalid(filters)]]

\* FilterSet.Matches(value): true iff value satisfies any one pattern.
Matches(fs, value) ==
    \E i \in 1..Len(fs.patterns) :
        IF fs.kind = "strict" THEN fs.patterns[i] = value
        ELSE RegexpSearch(fs.patterns[i], value)

----------------------------------------------------------------------------
(* AttributesMatcher: a slice of compiled attribute constraints *)

\* One compiled constraint: the key and, when a value is configured, its filter.
CompileAttribute(cfg, a) ==
    IF a.Value = <<>>
    THEN [m |-> [Key |-> a.Key, Value |-> NilFilterSet], err |-> NoCause]
    ELSE LET r == CreateFilterSet(<<a.Value[1]>>, cfg)
         IN  [m |-> [Key |-> a.Key, Value |-> r.fs], err |-> r.err]

\* NewAttributesMatcher(config, attributes): the matcher and the error of the
\* first constraint that does not compile.
RECURSIVE NewAttributesMatcherFrom(_, _, _, _)
NewAttributesMatcherFrom(cfg, attrs, i, acc) ==
    IF i > Len(attrs) THEN [am |-> acc, err |-> NoCause]
    ELSE LET r == CompileAttribute(cfg, attrs[i])
         IN  IF r.err # NoCause THEN [am |-> <<>>, err |-> r.err]
             ELSE NewAttributesMatcherFrom(cfg, attrs, i + 1, Append(acc, r.m))

NewAttributesMatcher(cfg, attrs) == NewAttributesMatcherFrom(cfg, attrs, 1, <<>>)

\* AttributesMatcher.Match(attrs): no constraints match everything; otherwise
\* every constraint's key must be present and its value, if tested, must match.
AttributesMatch(am, attrs) ==
    \/ Len(am) = 0
    \/ \A i \in 1..Len(am) :
          /\ am[i].Key \in DOMAIN attrs
          /\ \/ am[i].Value = NilFilterSet
             \/ Matches(am[i].Value, attrs[am[i].Key])

----------------------------------------------------------------------------
(* PropertiesMatcher *)

\* PropertiesMatcher{}: no libraries, nil attributes, nil resources.
ZeroMatcher == [libraries |-> <<>>, attributes |-> <<>>, resources |-> <<>>]

\* fmt.Errorf("<ctx>: %w", err)
Wrap(ctx, cause) == [ctx |-> ctx, cause |-> cause]

\* NewMatcherTail as it would be if a failure returned what was built so far.
NewMatcherTailPartial(mp, lm) ==
    LET a == IF Len(mp.Attributes) > 0
             THEN NewAttributesMatcher(mp.Config, mp.Attributes)
             ELSE [am |-> <<>>, err |-> NoCause]
        r == IF Len(mp.Resources) > 0
             THEN NewAttributesMatcher(mp.Config, mp.Resources)
             ELSE [am |-> <<>>, err |-> NoCause]
    IN  IF a.err # NoCause
        THEN [m |-> [libraries |-> lm, attributes |-> <<>>, resources |-> <<>>],
              err |-> Wrap("error creating attribute filters", a.err)]
        ELSE IF r.err # NoCause
        THEN [m |-> [libraries |-> lm, attributes |-> a.am, resources |-> <<>>],
              err |-> Wrap("error creating resource filters", r.err)]
        ELSE [m |-> [libraries |-> lm, attributes |-> a.am, resources |-> r.am],
              err |-> NoError]

\* NewMatcherTail as it would be if the resources were compiled first.
NewMatcherTailResourcesFirst(mp, lm) ==
    LET a == IF Len(mp.Attributes) > 0
             THEN NewAttributesMatcher(mp.Config, mp.Attributes)
             ELSE [am |-> <<>>, err |-> NoCause]
        r == IF Len(mp.Resources) > 0
             THEN NewAttributesMatcher(mp.Config, mp.Resources)
             ELSE [am |-> <<>>, err |-> NoCause]
    IN  IF r.err # NoCause
        THEN [m |-> ZeroMatcher, err |-> Wrap("error creating resource filters", r.err)]
        ELSE IF a.err # NoCause
        THEN [m |-> ZeroMatcher, err |-> Wrap("error creating attribute filters", a.err)]
        ELSE [m |-> [libraries |-> lm, attributes |-> a.am, resources |-> r.am],
              err |-> NoError]

\* The tail of NewMatcher, after the loop over mp.Libraries has built lm.
NewMatcherTail(mp, lm) ==
    LET a == IF Len(mp.Attributes) > 0
             THEN NewAttributesMatcher(mp.Config, mp.Attributes)
             ELSE [am |-> <<>>, err |-> NoCause]
        r == IF Len(mp.Resources) > 0
             THEN NewAttributesMatcher(mp.Config, mp.Resources)
             ELSE [am |-> <<>>, err |-> NoCause]
    IN  IF a.err # NoCause
        THEN [m |-> ZeroMatcher, err |-> Wrap("error creating attribute filters", a.err)]
        ELSE IF r.err # NoCause
        THEN [m |-> ZeroMatcher, err |-> Wrap("error creating resource filters", r.err)]
        ELSE [m |-> [libraries |-> lm, attributes |-> a.am, resources |-> r.am],
              err |-> NoError]

\* The loop of NewMatcher over mp.Libraries, from its i-th entry on.
RECURSIVE NewMatcherLoop(_, _, _)
NewMatcherLoop(mp, i, lm) ==
    IF i > Len(mp.Libraries) THEN NewMatcherTail(mp, lm)
    ELSE LET library == mp.Libraries[i]
             name == CreateFilterSet(<<library.Name>>, mp.Config)
             filter == CreateFilterSet(<<library.Version[1]>>, mp.Config)
         IN  IF name.err # NoCause
             THEN [m |-> ZeroMatcher,
                   err |-> Wrap("error creating library name filters", name.err)]
             ELSE IF library.Version # <<>> /\ filter.err # NoCause
             THEN [m |-> ZeroMatcher,
                   err |-> Wrap("error creating library version filters", filter.err)]
             ELSE NewMatcherLoop(mp, i + 1,
                      Append(lm, [Name |-> name.fs,
                                  Version |-> IF library.Version # <<>>
                                              THEN filter.fs ELSE NilFilterSet]))

\* NewMatcher(mp): the PropertiesMatcher and the error.
NewMatcher(mp) == NewMatcherLoop(mp, 1, <<>>)

\* The loop of Match over mp.libraries, from its i-th entry on: FALSE when an
\* entry returns false, TRUE when the loop runs to its end.
RECURSIVE MatchLoop(_, _, _)
MatchLoop(libraries, i, library) ==
    IF i > Len(libraries) THEN TRUE
    ELSE LET matcher == libraries[i]
         IN  IF ~Matches(matcher.Name, library.Name) THEN FALSE
             ELSE IF matcher.Version # NilFilterSet
                     /\ ~Matches(matcher.Version, library.Version) THEN FALSE
             ELSE MatchLoop(libraries, i + 1, library)

\* The loop of Match as it would be if the version filters were never consulted.
RECURSIVE MatchLoopNamesOnly(_, _, _)
MatchLoopNamesOnly(libraries, i, library) ==
    IF i > Len(libraries) THEN TRUE
    ELSE IF ~Matches(libraries[i].Name, library.Name) THEN FALSE
    ELSE MatchLoopNamesOnly(libraries, i + 1, library)

\* The loop of Match as it would be without the nil test on the version filter.
RECURSIVE MatchLoopNoNilTest(_, _, _)
MatchLoopNoNilTest(libraries, i, library) ==
    IF i > Len(libraries) THEN TRUE
    ELSE IF ~Matches(libraries[i].Name, library.Name) THEN FALSE
    ELSE IF ~Matches(libraries[i].Version, library.Version) THEN FALSE
    ELSE MatchLoopNoNilTest(libraries, i + 1, library)

\* Match as it would be if only the first library constraint were evaluated.
MatchFirstLibraryOnly(m, attributes, resource, library) ==
    IF Len(m.libraries) > 0 /\ ~MatchLoop(<<m.libraries[1]>>, 1, library) THEN FALSE
    ELSE IF m.resources # <<>> /\ ~AttributesMatch(m.resources, resource) THEN FALSE
    ELSE AttributesMatch(m.attributes, attributes)

\* Match as it would be with the version filters ignored.
MatchIgnoringVersions(m, attributes, resource, library) ==
    IF ~MatchLoopNamesOnly(m.libraries, 1, library) THEN FALSE
    ELSE IF m.resources # <<>> /\ ~AttributesMatch(m.resources, resource) THEN FALSE
    ELSE AttributesMatch(m.attributes, attributes)

\* Match as it would be if a nil version filter were asked to match.
MatchNilVersionConsulted(m, attributes, resource, library) ==
    IF ~MatchLoopNoNilTest(m.libraries, 1, library) THEN FALSE
    ELSE IF m.resources # <<>> /\ ~AttributesMatch(m.resources, resource) THEN FALSE
    ELSE AttributesMatch(m.attributes, attributes)

\* Match as it would be without the resources gate.
MatchWithoutResources(m, attributes, resource, library) ==
    IF ~MatchLoop(m.libraries, 1, library) THEN FALSE
    ELSE AttributesMatch(m.attributes, attributes)

\* Match as it would be if the attributes were gated on presence like the
\* resources are.
MatchAttributesGated(m, attributes, resource, library) ==
    IF ~MatchLoop(m.libraries, 1, library) THEN FALSE
    ELSE IF m.resources # <<>> /\ ~AttributesMatch(m.resources, resource) THEN FALSE
    ELSE m.attributes # <<>> /\ AttributesMatch(m.attributes, attributes)

\* PropertiesMatcher.Match(attributes, resource, library)
Match(m, attributes, resource, library) ==
    IF ~MatchLoop(m.libraries, 1, library) THEN FALSE
    ELSE IF m.resources # <<>> /\ ~AttributesMatch(m.resources, resource) THEN FALSE
    ELSE AttributesMatch(m.attributes, attributes)

----------------------------------------------------------------------------
(* State *)

VARIABLES
    \* One processor that builds its matcher once and evaluates one record.
    phase,      \* "idle", "built" (NewMatcher returned a nil error), "failed", "called"
    mp,         \* the MatchProperties handed to NewMatcher
    matcher,    \* the PropertiesMatcher NewMatcher returned
    err,        \* the error NewMatcher returned
    rec,        \* the record of the Match call
    result,     \* what the Match call returned
    \* Two matchers built from one MatchProperties.
    tmp,        \* the MatchProperties both are built from
    tms,        \* instance -> its PropertiesMatcher
    tbuilt,     \* instance -> whether NewMatcher has returned it
    trec,       \* the record both evaluate
    tres,       \* instance -> "none", "true" or "false": its verdict on trec
    \* One matcher shared by concurrent callers of Match.
    cmp,        \* the MatchProperties the shared matcher was built from
    cm,         \* the shared PropertiesMatcher
    cpc,        \* caller -> "idle", "loop", "resources", "attributes", "done"
    ci,         \* caller -> index of its loop over mp.libraries
    crec,       \* caller -> the record it handed to Match, as it is now
    cpassed,    \* caller -> the record as it was when handed to Match
    cret        \* caller -> what its Match call returned

\* The OpenCensus exporters (traces, metrics) and the receiver they send to.
VARIABLES
    ocState,         \* kind -> "created", "started", "stopped"
    ocBackend,       \* whether a receiver listens at the exporters' endpoint
    ocNet,           \* batches sent and not yet received, in order
    ocSink,          \* kind -> the batches the receiver's sink holds
    ocLast,          \* kind -> outcome of the last Consume call, and whether
                     \*         the exporter had been shut down when it was made
    ocAccepted,      \* kind -> number of Consume calls that returned no error
    ocAcceptedAtStop, \* kind -> ocAccepted[kind] when Shutdown ran
    ocSent           \* kind -> the batches Consume returned no error for, in order

\* The load scraper (type scraper) and the sampler it starts and stops.
VARIABLES
    lsPhase,        \* "none", "new", "started", "failed", "stopped"
    lsCPUAverage,   \* s.config.CPUAverage
    skipScrape,     \* s.skipScrape
    lsMb,           \* s.mb: <<>> while nil, else <<the builder>>
    lsSamplerErr,   \* what startSampling returned; "notcalled" before
    lsSampling,     \* whether the sampler runs
    lsStartRet,     \* what start returned
    lsScrapeRet,    \* what the last scrape returned
    lsShutdownRet,  \* what shutdown returned
    lsScrapes,      \* number of scrape calls
    lsLoadCalls,    \* number of s.load() calls
    lsStopCalls     \* number of stopSampling calls

\* The Loki exporter and the server its push requests go to.
VARIABLES
    lkPhase,        \* "idle", "sending", "done"
    lkLogs,         \* the batch handed to ConsumeLogs
    lkWire,         \* push requests made and not yet at the server, in order
    lkActual        \* what the server holds: header value -> last request

varsOne == <<phase, mp, matcher, err, rec, result>>
varsTwo == <<tmp, tms, tbuilt, trec, tres>>
varsConc == <<cmp, cm, cpc, ci, crec, cpassed, cret>>
varsOC ==
    <<ocState, ocBackend, ocNet, ocSink, ocLast, ocAccepted, ocAcceptedAtStop, ocSent>>
varsLoad ==
    <<lsPhase, lsCPUAverage, skipScrape, lsMb, lsSamplerErr, lsSampling, lsStartRet,
      lsScrapeRet, lsShutdownRet, lsScrapes, lsLoadCalls, lsStopCalls>>
varsLoki == <<lkPhase, lkLogs, lkWire, lkActual>>

NoRecord ==
    [attributes |-> EmptyMap, resource |-> EmptyMap,
     library |-> [Name |-> <<>>, Version |-> <<>>]]

Instances == {1, 2}
Callers == {"g1", "g2"}

\* The configurations and records of the two-matcher and shared-matcher
\* machines: the regexp configurations that compile, and records that differ
\* in every part.
SharedSpecs ==
    {s \in MatchSpecs : s.Config.MatchType = "regexp" /\ NewMatcher(s).err = NoError}
SharedRecords ==
    [attributes : {EmptyMap, [k \in {"k"} |-> <<"a">>]},
     resource : {EmptyMap, [k \in {"k"} |-> <<"a">>]},
     library : {[Name |-> <<"a">>, Version |-> <<"a">>],
                [Name |-> <<"b", "a">>, Version |-> <<>>]}]

InitOne ==
    /\ phase = "idle"
    /\ mp = EmptySpec("strict")
    /\ matcher = ZeroMatcher
    /\ err = NoError
    /\ rec = NoRecord
    /\ result = FALSE

InitTwo ==
    /\ tmp = EmptySpec("regexp")
    /\ tms = [i \in Instances |-> ZeroMatcher]
    /\ tbuilt = [i \in Instances |-> FALSE]
    /\ trec = NoRecord
    /\ tres = [i \in Instances |-> "none"]

InitConc ==
    /\ cmp = EmptySpec("regexp")
    /\ cm = ZeroMatcher
    /\ cpc = [g \in Callers |-> "idle"]
    /\ ci = [g \in Callers |-> 0]
    /\ crec = [g \in Callers |-> NoRecord]
    /\ cpassed = [g \in Callers |-> NoRecord]
    /\ cret = [g \in Callers |-> FALSE]

----------------------------------------------------------------------------
(* One processor: it builds its matcher once, then evaluates a record *)

\* The processor's constructor calls NewMatcher on its configuration.
NewMatcherCall ==
    /\ phase = "idle"
    /\ \E spec \in MatchSpecs :
          LET r == NewMatcher(spec)
          IN  /\ mp' = spec
              /\ matcher' = r.m
              /\ err' = r.err
              /\ phase' = IF r.err = NoError THEN "built" ELSE "failed"
    /\ UNCHANGED <<rec, result>>
    /\ UNCHANGED <<varsTwo, varsConc, varsOC, varsLoad, varsLoki>>

\* The processor evaluates a record; a processor whose construction failed
\* never starts.
MatchCall ==
    /\ phase = "built"
    /\ \E r \in Records :
          /\ rec' = r
          /\ result' = Match(matcher, r.attributes, r.resource, r.library)
    /\ phase' = "called"
    /\ UNCHANGED <<mp, matcher, err>>
    /\ UNCHANGED <<varsTwo, varsConc, varsOC, varsLoad, varsLoki>>

----------------------------------------------------------------------------
(* Two matchers built from one MatchProperties *)

\* NewMatcher returns instance i.
TwoNewMatcher(i) ==
    /\ ~tbuilt[i]
    /\ tms' = [tms EXCEPT ![i] = NewMatcher(tmp).m]
    /\ tbuilt' = [tbuilt EXCEPT ![i] = TRUE]
    /\ UNCHANGED <<tmp, trec, tres>>
    /\ UNCHANGED <<varsOne, varsConc, varsOC, varsLoad, varsLoki>>

\* The next record arrives; no instance has evaluated it yet.
TwoFeed ==
    /\ \E r \in SharedRecords : trec' = r
    /\ tres' = [i \in Instances |-> "none"]
    /\ UNCHANGED <<tmp, tms, tbuilt>>
    /\ UNCHANGED <<varsOne, varsConc, varsOC, varsLoad, varsLoki>>

\* TwoMatch as it would be if Match consumed its receiver's library list.
TwoMatchConsuming(i) ==
    /\ tbuilt[i]
    /\ tres' = [tres EXCEPT ![i] =
                   IF Match(tms[i], trec.attributes, trec.resource, trec.library)
                   THEN "true" ELSE "false"]
    /\ tms' = [tms EXCEPT ![i].libraries = IF @ = <<>> THEN @ ELSE Tail(@)]
    /\ UNCHANGED <<tmp, tbuilt, trec>>
    /\ UNCHANGED <<varsOne, varsConc, varsOC, varsLoad, varsLoki>>

\* Instance i evaluates the record: Match reads its receiver and writes nothing.
TwoMatch(i) ==
    /\ tbuilt[i]
    /\ tres' = [tres EXCEPT ![i] =
                   IF Match(tms[i], trec.attributes, trec.resource, trec.library)
                   THEN "true" ELSE "false"]
    /\ UNCHANGED <<tmp, tms, tbuilt, trec>>
    /\ UNCHANGED <<varsOne, varsConc, varsOC, varsLoad, varsLoki>>

----------------------------------------------------------------------------
(* One matcher shared by concurrent callers; Match runs statement by statement *)

\* Caller g enters Match with record r.
ConcCall(g) ==
    /\ cpc[g] = "idle"
    /\ \E r \in SharedRecords :
          /\ crec' = [crec EXCEPT ![g] = r]
          /\ cpassed' = [cpassed EXCEPT ![g] = r]
    /\ ci' = [ci EXCEPT ![g] = 1]
    /\ cpc' = [cpc EXCEPT ![g] = "loop"]
    /\ UNCHANGED <<cmp, cm, cret>>
    /\ UNCHANGED <<varsOne, varsTwo, varsOC, varsLoad, varsLoki>>

\* ConcLoopStep as it would be if the loop consumed mp.libraries
\* (mp.libraries = mp.libraries[1:]) instead of ranging over it.
ConcLoopStepConsuming(g) ==
    /\ cpc[g] = "loop"
    /\ IF cm.libraries = <<>>
       THEN /\ cpc' = [cpc EXCEPT ![g] = "resources"]
            /\ UNCHANGED <<cm, cret>>
       ELSE LET m == cm.libraries[1]
            IN  IF \/ ~Matches(m.Name, crec[g].library.Name)
                   \/ (m.Version # NilFilterSet
                          /\ ~Matches(m.Version, crec[g].library.Version))
                THEN /\ cret' = [cret EXCEPT ![g] = FALSE]
                     /\ cpc' = [cpc EXCEPT ![g] = "done"]
                     /\ UNCHANGED cm
                ELSE /\ cm' = [cm EXCEPT !.libraries = Tail(@)]
                     /\ UNCHANGED <<cpc, cret>>
    /\ UNCHANGED <<cmp, ci, crec, cpassed>>
    /\ UNCHANGED <<varsOne, varsTwo, varsOC, varsLoad, varsLoki>>

\* One iteration of the loop over mp.libraries, or its end.
ConcLoopStep(g) ==
    /\ cpc[g] = "loop"
    /\ IF ci[g] > Len(cm.libraries)
       THEN /\ cpc' = [cpc EXCEPT ![g] = "resources"]
            /\ UNCHANGED <<ci, cret>>
       ELSE LET m == cm.libraries[ci[g]]
            IN  IF \/ ~Matches(m.Name, crec[g].library.Name)
                   \/ (m.Version # NilFilterSet
                          /\ ~Matches(m.Version, crec[g].library.Version))
                THEN /\ cret' = [cret EXCEPT ![g] = FALSE]
                     /\ cpc' = [cpc EXCEPT ![g] = "done"]
                     /\ UNCHANGED ci
                ELSE /\ ci' = [ci EXCEPT ![g] = @ + 1]
                     /\ UNCHANGED <<cpc, cret>>
    /\ UNCHANGED <<cmp, cm, crec, cpassed>>
    /\ UNCHANGED <<varsOne, varsTwo, varsOC, varsLoad, varsLoki>>

\* The resources gate.
ConcResources(g) ==
    /\ cpc[g] = "resources"
    /\ IF cm.resources # <<>> /\ ~AttributesMatch(cm.resources, crec[g].resource)
       THEN /\ cret' = [cret EXCEPT ![g] = FALSE]
            /\ cpc' = [cpc EXCEPT ![g] = "done"]
       ELSE /\ cpc' = [cpc EXCEPT ![g] = "attributes"]
            /\ UNCHANGED cret
    /\ UNCHANGED <<cmp, cm, ci, crec, cpassed>>
    /\ UNCHANGED <<varsOne, varsTwo, varsOC, varsLoad, varsLoki>>

\* The final return: the attributes matcher's verdict.
ConcAttributes(g) ==
    /\ cpc[g] = "attributes"
    /\ cret' = [cret EXCEPT ![g] = AttributesMatch(cm.attributes, crec[g].attributes)]
    /\ cpc' = [cpc EXCEPT ![g] = "done"]
    /\ UNCHANGED <<cmp, cm, ci, crec, cpassed>>
    /\ UNCHANGED <<varsOne, varsTwo, varsOC, varsLoad, varsLoki>>

\* The caller takes the result and goes on to its next record.
ConcReturn(g) ==
    /\ cpc[g] = "done"
    /\ cpc' = [cpc EXCEPT ![g] = "idle"]
    /\ ci' = [ci EXCEPT ![g] = 0]
    /\ crec' = [crec EXCEPT ![g] = NoRecord]
    /\ cpassed' = [cpassed EXCEPT ![g] = NoRecord]
    /\ cret' = [cret EXCEPT ![g] = FALSE]
    /\ UNCHANGED <<cmp, cm>>
    /\ UNCHANGED <<varsOne, varsTwo, varsOC, varsLoad, varsLoki>>

----------------------------------------------------------------------------
(* OpenCensus exporters (traces, metrics) and the receiver they send to *)

\* The most batches one exporter accepts.
MaxBatches == 2

Kinds == {"traces", "metrics"}

\* A batch: its kind, its number, and whether its resource attributes are
\* non-empty.
Batch(k, n, node) == [kind |-> k, id |-> n, node |-> node]

\* The exporter's conversion to the OpenCensus message: a batch with resource
\* attributes carries a Node, one without carries none.
ToOC(b) == [kind |-> b.kind, id |-> b.id, node |-> IF b.node THEN <<"node">> ELSE <<>>]

\* FromOC as it would be if a message without a Node were given a default one.
FromOCDefaultNode(m) == [kind |-> m.kind, id |-> m.id, node |-> TRUE]

\* The receiver's conversion back: resource attributes exactly when a Node came.
FromOC(m) == [kind |-> m.kind, id |-> m.id, node |-> m.node # <<>>]

\* The wire with the messages of kind k removed.
RECURSIVE WithoutKind(_, _)
WithoutKind(net, k) ==
    IF net = <<>> THEN <<>>
    ELSE IF Head(net).kind = k THEN WithoutKind(Tail(net), k)
    ELSE <<Head(net)>> \o WithoutKind(Tail(net), k)

InitOC ==
    /\ ocState = [k \in Kinds |-> "created"]
    /\ ocBackend = FALSE
    /\ ocNet = <<>>
    /\ ocSink = [k \in Kinds |-> <<>>]
    /\ ocLast = [k \in Kinds |-> [outcome |-> "none", afterStop |-> FALSE]]
    /\ ocAccepted = [k \in Kinds |-> 0]
    /\ ocAcceptedAtStop = [k \in Kinds |-> 0]
    /\ ocSent = [k \in Kinds |-> <<>>]

\* recv.Start: the receiver listens.
OcReceiverStart ==
    /\ ~ocBackend
    /\ ocBackend' = TRUE
    /\ UNCHANGED <<ocState, ocNet, ocSink, ocLast, ocAccepted, ocAcceptedAtStop, ocSent>>
    /\ UNCHANGED <<varsOne, varsTwo, varsConc, varsLoad, varsLoki>>

\* exp.Start: returns no error whether or not a receiver listens.
OcStart(k) ==
    /\ ocState[k] = "created"
    /\ ocState' = [ocState EXCEPT ![k] = "started"]
    /\ UNCHANGED <<ocBackend, ocNet, ocSink, ocLast, ocAccepted, ocAcceptedAtStop, ocSent>>
    /\ UNCHANGED <<varsOne, varsTwo, varsConc, varsLoad, varsLoki>>

\* exp.Shutdown of a started exporter: returns no error.  Closing the
\* connection may or may not discard what the exporter sent and the receiver
\* has not yet taken.
OcShutdown(k) ==
    /\ ocState[k] = "started"
    /\ ocState' = [ocState EXCEPT ![k] = "stopped"]
    /\ ocAcceptedAtStop' = [ocAcceptedAtStop EXCEPT ![k] = ocAccepted[k]]
    /\ ocNet' \in {ocNet, WithoutKind(ocNet, k)}
    /\ UNCHANGED <<ocBackend, ocSink, ocLast, ocAccepted, ocSent>>
    /\ UNCHANGED <<varsOne, varsTwo, varsConc, varsLoad, varsLoki>>

\* OcConsume as it would be if a stopped exporter still tried to send.
OcConsumeIgnoringStop(k) ==
    /\ ocState[k] \in {"started", "stopped"}
    /\ IF ~ocBackend
       THEN /\ ocLast' = [ocLast EXCEPT ![k] =
                             [outcome |-> "error", afterStop |-> ocState[k] = "stopped"]]
            /\ UNCHANGED <<ocNet, ocAccepted, ocSent>>
       ELSE /\ ocAccepted[k] < MaxBatches
            /\ \E node \in BOOLEAN :
                  LET b == Batch(k, ocAccepted[k] + 1, node)
                  IN  /\ ocNet' = Append(ocNet, ToOC(b))
                      /\ ocSent' = [ocSent EXCEPT ![k] = Append(@, b)]
            /\ ocAccepted' = [ocAccepted EXCEPT ![k] = @ + 1]
            /\ ocLast' = [ocLast EXCEPT ![k] =
                             [outcome |-> "ok", afterStop |-> ocState[k] = "stopped"]]
    /\ UNCHANGED <<ocState, ocBackend, ocSink, ocAcceptedAtStop>>
    /\ UNCHANGED <<varsOne, varsTwo, varsConc, varsLoad, varsLoki>>

\* exp.ConsumeTraces / exp.ConsumeMetrics on a started or stopped exporter: an
\* error after Shutdown, an error when no receiver listens, otherwise the
\* batch is sent and nil returned.
OcConsume(k) ==
    /\ ocState[k] \in {"started", "stopped"}
    /\ IF ocState[k] = "stopped" \/ ~ocBackend
       THEN /\ ocLast' = [ocLast EXCEPT ![k] =
                             [outcome |-> "error", afterStop |-> ocState[k] = "stopped"]]
            /\ UNCHANGED <<ocNet, ocAccepted, ocSent>>
       ELSE /\ ocAccepted[k] < MaxBatches
            /\ \E node \in BOOLEAN :
                  LET b == Batch(k, ocAccepted[k] + 1, node)
                  IN  /\ ocNet' = Append(ocNet, ToOC(b))
                      /\ ocSent' = [ocSent EXCEPT ![k] = Append(@, b)]
            /\ ocAccepted' = [ocAccepted EXCEPT ![k] = @ + 1]
            /\ ocLast' = [ocLast EXCEPT ![k] = [outcome |-> "ok", afterStop |-> FALSE]]
    /\ UNCHANGED <<ocState, ocBackend, ocSink, ocAcceptedAtStop>>
    /\ UNCHANGED <<varsOne, varsTwo, varsConc, varsLoad, varsLoki>>

\* The receiver takes the next batch off the wire and hands it to its sink.
OcDeliver ==
    /\ ocNet # <<>>
    /\ ocSink' = [ocSink EXCEPT ![Head(ocNet).kind] = Append(@, FromOC(Head(ocNet)))]
    /\ ocNet' = Tail(ocNet)
    /\ UNCHANGED <<ocState, ocBackend, ocLast, ocAccepted, ocAcceptedAtStop, ocSent>>
    /\ UNCHANGED <<varsOne, varsTwo, varsConc, varsLoad, varsLoki>>

----------------------------------------------------------------------------
(* The load scraper: start, scrape, shutdown *)

MaxScrapes == 2

metricsLen == 3

NanosPerSecond == 1000000000

BootTimes == {1, 2}
CPUCounts == {1, 2}
LoadAvgs == {[Load1 |-> 1, Load5 |-> 2, Load15 |-> 3], [Load1 |-> 0, Load5 |-> 0, Load15 |-> 0]}

\* Errors are named by where they come from; NilErr is Go's nil error.
NilErr == "nil"
SamplerErrs == {NilErr, "PerfCounterInitError", "wrapped PerfCounterInitError", "sampler error"}

\* errors.As(err, &initErr): err or an error it wraps is a *PerfCounterInitError.
IsPerfCounterInitError(e) == e \in {"PerfCounterInitError", "wrapped PerfCounterInitError"}

\* pmetric.NewMetrics()
NewMetrics == <<>>

\* scrapererror.NewPartialScrapeError(err, failed)
NewPartialScrapeError(e, failed) == [cause |-> e, failed |-> failed]

ScrapeReturn(md, e) == [metrics |-> md, err |-> e]
NoScrapeError == [cause |-> NilErr, failed |-> 0]
NoScrapeYet == ScrapeReturn(NewMetrics, NoScrapeError)

\* A load average divided by the number of CPUs, kept as a fraction.
Scaled(v, divisor) == [num |-> v, den |-> divisor]

\* The three data points recorded on the builder and returned by Emit.
Emit(mb, a, divisor) ==
    << [name |-> "system.cpu.load_average.1m", start |-> mb.startTime,
        value |-> Scaled(a.Load1, divisor)],
       [name |-> "system.cpu.load_average.5m", start |-> mb.startTime,
        value |-> Scaled(a.Load5, divisor)],
       [name |-> "system.cpu.load_average.15m", start |-> mb.startTime,
        value |-> Scaled(a.Load15, divisor)] >>

InitLoad ==
    /\ lsPhase = "none"
    /\ lsCPUAverage = FALSE
    /\ skipScrape = FALSE
    /\ lsMb = <<>>
    /\ lsSamplerErr = "notcalled"
    /\ lsSampling = FALSE
    /\ lsStartRet = NilErr
    /\ lsScrapeRet = NoScrapeYet
    /\ lsShutdownRet = NilErr
    /\ lsScrapes = 0
    /\ lsLoadCalls = 0
    /\ lsStopCalls = 0

\* newLoadScraper(ctx, settings, cfg)
LsNew ==
    /\ lsPhase = "none"
    /\ lsPhase' = "new"
    /\ lsCPUAverage' \in BOOLEAN
    /\ UNCHANGED <<skipScrape, lsMb, lsSamplerErr, lsSampling, lsStartRet, lsScrapeRet,
                   lsShutdownRet, lsScrapes, lsLoadCalls, lsStopCalls>>
    /\ UNCHANGED <<varsOne, varsTwo, varsConc, varsOC, varsLoki>>

\* start as it would be if a PerfCounterInitError were only logged.
LsStartLogsOnly ==
    /\ lsPhase = "new"
    /\ \/ /\ lsStartRet' = "bootTime error"
          /\ lsPhase' = "failed"
          /\ UNCHANGED <<lsMb, lsSamplerErr, lsSampling, skipScrape>>
       \/ \E bootTime \in BootTimes, e \in SamplerErrs :
             /\ lsMb' = <<[startTime |-> bootTime * NanosPerSecond]>>
             /\ lsSamplerErr' = e
             /\ lsSampling' = (e = NilErr)
             /\ IF IsPerfCounterInitError(e)
                   THEN /\ UNCHANGED skipScrape
                        /\ lsStartRet' = NilErr
                        /\ lsPhase' = "started"
                   ELSE IF e # NilErr
                   THEN /\ UNCHANGED skipScrape
                        /\ lsStartRet' = e
                        /\ lsPhase' = "failed"
                   ELSE /\ UNCHANGED skipScrape
                        /\ lsStartRet' = NilErr
                        /\ lsPhase' = "started"
    /\ UNCHANGED <<lsCPUAverage, lsScrapeRet, lsShutdownRet, lsScrapes, lsLoadCalls,
                   lsStopCalls>>
    /\ UNCHANGED <<varsOne, varsTwo, varsConc, varsOC, varsLoki>>

\* scraper.start: a failing bootTime is returned before anything else is
\* done; otherwise the builder is made and the sampler started, and the
\* sampler's error decides between skipping, failing and running.
LsStart ==
    /\ lsPhase = "new"
    /\ \/ /\ lsStartRet' = "bootTime error"
          /\ lsPhase' = "failed"
          /\ UNCHANGED <<lsMb, lsSamplerErr, lsSampling, skipScrape>>
       \/ \E bootTime \in BootTimes, e \in SamplerErrs :
             /\ lsMb' = <<[startTime |-> bootTime * NanosPerSecond]>>
             /\ lsSamplerErr' = e
             /\ lsSampling' = (e = NilErr)
             /\ IF IsPerfCounterInitError(e)
                   THEN /\ skipScrape' = TRUE
                        /\ lsStartRet' = NilErr
                        /\ lsPhase' = "started"
                   ELSE IF e # NilErr
                   THEN /\ UNCHANGED skipScrape
                        /\ lsStartRet' = e
                        /\ lsPhase' = "failed"
                   ELSE /\ UNCHANGED skipScrape
                        /\ lsStartRet' = NilErr
                        /\ lsPhase' = "started"
    /\ UNCHANGED <<lsCPUAverage, lsScrapeRet, lsShutdownRet, lsScrapes, lsLoadCalls,
                   lsStopCalls>>
    /\ UNCHANGED <<varsOne, varsTwo, varsConc, varsOC, varsLoki>>

\* scraper.scrape, called by the controller between start and shutdown.
LsScrape ==
    /\ lsPhase = "started"
    /\ lsScrapes < MaxScrapes
    /\ lsScrapes' = lsScrapes + 1
    /\ IF skipScrape
          THEN /\ lsScrapeRet' = ScrapeReturn(NewMetrics, NoScrapeError)
               /\ UNCHANGED lsLoadCalls
          ELSE /\ lsLoadCalls' = lsLoadCalls + 1
               /\ \/ lsScrapeRet' =
                        ScrapeReturn(NewMetrics, NewPartialScrapeError("load error", metricsLen))
                  \/ \E a \in LoadAvgs, cpus \in CPUCounts :
                        lsScrapeRet' =
                            ScrapeReturn(Emit(lsMb[1], a, IF lsCPUAverage THEN cpus ELSE 1),
                                         NoScrapeError)
    /\ UNCHANGED <<lsPhase, lsCPUAverage, skipScrape, lsMb, lsSamplerErr, lsSampling,
                   lsStartRet, lsShutdownRet, lsStopCalls>>
    /\ UNCHANGED <<varsOne, varsTwo, varsConc, varsOC, varsLoki>>

\* scraper.shutdown of a started scraper.
LsShutdown ==
    /\ lsPhase = "started"
    /\ lsPhase' = "stopped"
    /\ IF skipScrape
          THEN /\ lsShutdownRet' = NilErr
               /\ UNCHANGED <<lsStopCalls, lsSampling>>
          ELSE /\ lsStopCalls' = lsStopCalls + 1
               /\ lsSampling' = FALSE
               /\ lsShutdownRet' \in {NilErr, "stopSampling error"}
    /\ UNCHANGED <<lsCPUAverage, skipScrape, lsMb, lsSamplerErr, lsStartRet, lsScrapeRet,
                   lsScrapes, lsLoadCalls>>
    /\ UNCHANGED <<varsOne, varsTwo, varsConc, varsOC, varsLoki>>

InitLoki ==
    /\ lkPhase = "idle"
    /\ lkLogs = <<>>
    /\ lkWire = <<>>
    /\ lkActual = <<>>

----------------------------------------------------------------------------
(* The Loki exporter: ConsumeLogs groups a batch into push requests by tenant *)

MaxLogRecords == 2

hintTenant == "loki.tenant"
TenantKey == "tenant.id"
TenantValues == {"1", "2"}

\* An attribute map with the tenant hint and the tenant attribute each
\* present or absent; h and t are empty or one-element sequences.
AttrsOf(h, t, rest) ==
    [k \in (IF h = <<>> THEN {} ELSE {hintTenant})
            \cup (IF t = <<>> THEN {} ELSE {TenantKey}) \cup rest |->
        IF k = hintTenant THEN h[1] ELSE IF k = TenantKey THEN t[1] ELSE "200"]

OptHints == {<<>>, <<TenantKey>>}
OptTenants == {<<>>} \cup {<<v>> : v \in TenantValues}

ResourceAttrs == {AttrsOf(h, t, {}) : h \in OptHints, t \in OptTenants}
LogAttrs == {AttrsOf(h, t, {"http.status"}) : h \in OptHints, t \in OptTenants}

\* A log record with the attributes of the resource it sits under.
LogEntries == [res : ResourceAttrs, attrs : LogAttrs]
LokiBatches == UNION {[1..n -> LogEntries] : n \in 1..MaxLogRecords}

\* pcommon.Map.Get
Get(m, k) == IF k \in DOMAIN m THEN <<m[k]>> ELSE <<>>

\* Tenant lookup as it would be if the log record's attributes came first.
GetTenantLogFirst(logAttr, resAttr) ==
    LET hint == IF Get(logAttr, hintTenant) # <<>> THEN Get(logAttr, hintTenant)
                ELSE Get(resAttr, hintTenant)
    IN  IF hint = <<>> THEN ""
        ELSE IF Get(logAttr, hint[1]) # <<>> THEN Get(logAttr, hint[1])[1]
        ELSE IF Get(resAttr, hint[1]) # <<>> THEN Get(resAttr, hint[1])[1]
        ELSE ""

\* The tenant of a record: the hint is looked up on the resource, then on
\* the record; the attribute it names likewise; "" when either is missing.
GetTenant(logAttr, resAttr) ==
    LET hint == IF Get(resAttr, hintTenant) # <<>> THEN Get(resAttr, hintTenant)
                ELSE Get(logAttr, hintTenant)
    IN  IF hint = <<>> THEN ""
        ELSE IF Get(resAttr, hint[1]) # <<>> THEN Get(resAttr, hint[1])[1]
        ELSE IF Get(logAttr, hint[1]) # <<>> THEN Get(logAttr, hint[1])[1]
        ELSE ""

\* The attribute the hint names, if a hint is there.
HintedKey(logAttr, resAttr) ==
    IF Get(resAttr, hintTenant) # <<>> THEN Get(resAttr, hintTenant)
    ELSE Get(logAttr, hintTenant)

\* The stream's labels, as a set of <<name, value>>: the exporter label and,
\* when the hinted attribute is present, that attribute with the value the
\* tenant was taken from.
LabelsOf(logAttr, resAttr) ==
    LET hint == HintedKey(logAttr, resAttr)
    IN  {<<"exporter", "OTLP">>} \cup
        (IF hint # <<>> /\ (Get(resAttr, hint[1]) # <<>> \/ Get(logAttr, hint[1]) # <<>>)
            THEN {<<hint[1], GetTenant(logAttr, resAttr)>>}
            ELSE {})

\* The entry's line: the record's attributes without the hint and without
\* the attribute that became a label.  id is the record's place in the batch.
LineOf(id, logAttr, resAttr) ==
    LET hint == HintedKey(logAttr, resAttr)
        drop == {hintTenant} \cup (IF hint = <<>> THEN {} ELSE {hint[1]})
    IN  [id |-> id, attributes |-> [k \in (DOMAIN logAttr) \ drop |-> logAttr[k]]]

\* Adding an entry to the stream with its labels, or to a new stream.
RECURSIVE AddToStreams(_, _, _)
AddToStreams(streams, labels, line) ==
    IF streams = <<>> THEN <<[labels |-> labels, entries |-> <<line>>]>>
    ELSE IF Head(streams).labels = labels
         THEN <<[Head(streams) EXCEPT !.entries = Append(@, line)]>> \o Tail(streams)
         ELSE <<Head(streams)>> \o AddToStreams(Tail(streams), labels, line)

\* Adding as it would be if every record got a push request of its own.
AddToRequestsUngrouped(requests, tenant, labels, line) ==
    Append(requests, [orgID |-> tenant, streams |-> AddToStreams(<<>>, labels, line)])

\* Adding an entry to the push request of its tenant, or to a new request.
RECURSIVE AddToRequests(_, _, _, _)
AddToRequests(requests, tenant, labels, line) ==
    IF requests = <<>>
        THEN <<[orgID |-> tenant, streams |-> AddToStreams(<<>>, labels, line)]>>
    ELSE IF Head(requests).orgID = tenant
        THEN <<[Head(requests) EXCEPT !.streams = AddToStreams(@, labels, line)]>>
                 \o Tail(requests)
    ELSE <<Head(requests)>> \o AddToRequests(Tail(requests), tenant, labels, line)

\* The push requests of a batch, one record after the other.
RECURSIVE LogsToLokiRequests(_, _)
LogsToLokiRequests(ld, n) ==
    IF n = 0 THEN <<>>
    ELSE AddToRequests(LogsToLokiRequests(ld, n - 1),
                       GetTenant(ld[n].attrs, ld[n].res),
                       LabelsOf(ld[n].attrs, ld[n].res),
                       LineOf(n, ld[n].attrs, ld[n].res))

\* s without its i-th element.
RemoveAt(s, i) == SubSeq(s, 1, i - 1) \o SubSeq(s, i + 1, Len(s))

\* ConsumeLogs: the batch is turned into push requests.
LokiConsumeLogs ==
    /\ lkPhase = "idle"
    /\ \E ld \in LokiBatches :
          /\ lkLogs' = ld
          /\ lkWire' = LogsToLokiRequests(ld, Len(ld))
    /\ lkPhase' = "sending"
    /\ UNCHANGED lkActual
    /\ UNCHANGED <<varsOne, varsTwo, varsConc, varsOC, varsLoad>>

\* One push request is sent, in no fixed order, with its tenant as the
\* X-Scope-OrgID header; the server keeps what it got.
LokiPush ==
    /\ lkPhase = "sending"
    /\ \E i \in 1..Len(lkWire) :
          /\ lkActual' = Append(lkActual, [header |-> lkWire[i].orgID,
                                           streams |-> lkWire[i].streams])
          /\ lkWire' = RemoveAt(lkWire, i)
    /\ UNCHANGED <<lkPhase, lkLogs>>
    /\ UNCHANGED <<varsOne, varsTwo, varsConc, varsOC, varsLoad>>

\* ConsumeLogs returns once every request is sent.
LokiReturn ==
    /\ lkPhase = "sending"
    /\ lkWire = <<>>
    /\ lkPhase' = "done"
    /\ UNCHANGED <<lkLogs, lkWire, lkActual>>
    /\ UNCHANGED <<varsOne, varsTwo, varsConc, varsOC, varsLoad>>

----------------------------------------------------------------------------
(* Specifications *)

vars == <<varsOne, varsTwo, varsConc, varsOC, varsLoad, varsLoki>>

Init == InitOne /\ InitTwo /\ InitConc /\ InitOC /\ InitLoad /\ InitLoki

Next == NewMatcherCall \/ MatchCall

Spec == Init /\ [][Next]_vars

\* Two instances built from any one configuration that compiles.
InitTwoMatchers ==
    /\ InitOne /\ InitConc /\ InitOC /\ InitLoad /\ InitLoki
    /\ tmp \in SharedSpecs
    /\ tms = [i \in Instances |-> ZeroMatcher]
    /\ tbuilt = [i \in Instances |-> FALSE]
    /\ trec = NoRecord
    /\ tres = [i \in Instances |-> "none"]

NextTwoMatchers ==
    \/ \E i \in Instances : TwoNewMatcher(i)
    \/ TwoFeed
    \/ \E i \in Instances : TwoMatch(i)

SpecTwoMatchers == InitTwoMatchers /\ [][NextTwoMatchers]_vars

\* A matcher built from any one configuration that compiles, then shared.
InitShared ==
    /\ InitOne /\ InitTwo /\ InitOC /\ InitLoad /\ InitLoki
    /\ cmp \in SharedSpecs
    /\ cm = NewMatcher(cmp).m
    /\ cpc = [g \in Callers |-> "idle"]
    /\ ci = [g \in Callers |-> 0]
    /\ crec = [g \in Callers |-> NoRecord]
    /\ cpassed = [g \in Callers |-> NoRecord]
    /\ cret = [g \in Callers |-> FALSE]

NextShared ==
    \/ \E g \in Callers : ConcCall(g)
    \/ \E g \in Callers : ConcLoopStep(g)
    \/ \E g \in Callers : ConcResources(g)
    \/ \E g \in Callers : ConcAttributes(g)
    \/ \E g \in Callers : ConcReturn(g)

SpecShared == InitShared /\ [][NextShared]_vars

\* The exporters of both kinds and one receiver.
InitExporter == InitOne /\ InitTwo /\ InitConc /\ InitOC /\ InitLoad /\ InitLoki

NextExporter ==
    \/ OcReceiverStart
    \/ \E k \in Kinds : OcStart(k)
    \/ \E k \in Kinds : OcShutdown(k)
    \/ \E k \in Kinds : OcConsume(k)
    \/ OcDeliver

SpecExporter == InitExporter /\ [][NextExporter]_vars

\* The receiver's server loop keeps taking what is on the wire.
SpecExporterLive == SpecExporter /\ WF_vars(OcDeliver)

\* The load scraper through its life: created, started, scraped, shut down.
InitScraper == InitOne /\ InitTwo /\ InitConc /\ InitOC /\ InitLoad /\ InitLoki

NextScraper ==
    \/ LsNew
    \/ LsStart
    \/ LsScrape
    \/ LsShutdown

SpecScraper == InitScraper /\ [][NextScraper]_vars

\* The Loki exporter consuming one batch.
InitLokiExporter == InitOne /\ InitTwo /\ InitConc /\ InitOC /\ InitLoad /\ InitLoki

NextLokiExporter ==
    \/ LokiConsumeLogs
    \/ LokiPush
    \/ LokiReturn

SpecLokiExporter == InitLokiExporter /\ [][NextLokiExporter]_vars

----------------------------------------------------------------------------
(* What a configuration asks for, stated on the configuration itself *)

\* The filter a pattern compiles to under the configuration's match type.
FilterOf(cfg, p) == CreateFilterSet(<<p>>, cfg).fs

\* Library constraint lib accepts the scope.
LibraryAccepts(cfg, lib, scope) ==
    /\ Matches(FilterOf(cfg, lib.Name), scope.Name)
    /\ lib.Version # <<>> => Matches(FilterOf(cfg, lib.Version[1]), scope.Version)

\* The constraint list (attributes or resources) accepts the map; an empty
\* list builds no matcher.
ListAccepts(cfg, list, map) ==
    \/ Len(list) = 0
    \/ AttributesMatch(NewAttributesMatcher(cfg, list).am, map)

\* The construction steps of NewMatcher in order: steps 2i-1 and 2i compile
\* the name and the version of library i, the last two the attributes and the
\* resources.  StepCause is the error of a step taken alone.
NumSteps(s) == 2 * Len(s.Libraries) + 2

StepCause(s, k) ==
    IF k <= 2 * Len(s.Libraries)
    THEN LET lib == s.Libraries[(k + 1) \div 2]
         IN  IF k % 2 = 1 THEN CreateFilterSet(<<lib.Name>>, s.Config).err
             ELSE IF lib.Version = <<>> THEN NoCause
             ELSE CreateFilterSet(<<lib.Version[1]>>, s.Config).err
    ELSE LET list == IF k = 2 * Len(s.Libraries) + 1 THEN s.Attributes ELSE s.Resources
         IN  IF Len(list) = 0 THEN NoCause
             ELSE NewAttributesMatcher(s.Config, list).err

StepField(s, k) ==
    IF k <= 2 * Len(s.Libraries)
    THEN (IF k % 2 = 1 THEN "library name" ELSE "library version")
    ELSE IF k = 2 * Len(s.Libraries) + 1 THEN "attribute" ELSE "resource"

FieldContext(f) == "error creating " \o f \o " filters"

StepFails(s, k) == StepCause(s, k) # NoCause
AnyStepFails(s) == \E k \in 1..NumSteps(s) : StepFails(s, k)
FirstFailingStep(s) ==
    CHOOSE k \in 1..NumSteps(s) :
        StepFails(s, k) /\ \A j \in 1..(k - 1) : ~StepFails(s, j)

Orderings(n) == {f \in [1..n -> 1..n] : \A i, j \in 1..n : f[i] = f[j] => i = j}

----------------------------------------------------------------------------
(* Claims *)

\* C1: Match returns true if and only if every configured library constraint
\* accepts the scope (its name filter and, when configured, its version
\* filter), the resources matcher is absent or accepts the resource
\* attributes, and the attributes matcher (absent: true) accepts the record
\* attributes.
C1_MatchIsConjunction ==
    phase = "called" =>
        result = (/\ \A i \in 1..Len(mp.Libraries) :
                        LibraryAccepts(mp.Config, mp.Libraries[i], rec.library)
                  /\ ListAccepts(mp.Config, mp.Resources, rec.resource)
                  /\ ListAccepts(mp.Config, mp.Attributes, rec.attributes))

\* A record accepted by a matcher that has a library constraint with a
\* version, a resource constraint and an attribute constraint.
C1_Witness ==
    /\ phase = "called"
    /\ result = TRUE
    /\ Len(mp.Libraries) = 2
    /\ mp.Libraries[1].Version # <<>>
    /\ Len(mp.Resources) > 0
    /\ Len(mp.Attributes) > 0

\* C2: a matcher built from a MatchProperties with no libraries, no attributes
\* and no resources returns true for every record.
C2_EmptySpecMatchesAll ==
    (/\ phase = "called"
     /\ mp.Libraries = <<>> /\ mp.Attributes = <<>> /\ mp.Resources = <<>>)
        => result = TRUE

\* The empty record (no attributes, no resource attributes, empty scope name
\* and version) evaluated by a matcher built from an empty configuration.
C2_Witness ==
    /\ phase = "called"
    /\ mp.Libraries = <<>> /\ mp.Attributes = <<>> /\ mp.Resources = <<>>
    /\ rec = NoRecord
    /\ result = TRUE

\* C3: when a resources matcher is configured and the resource attributes fail
\* it, Match returns false whatever the record's own attributes are.
C3_ResourceGate ==
    (/\ phase = "called"
     /\ Len(mp.Resources) > 0
     /\ ~AttributesMatch(NewAttributesMatcher(mp.Config, mp.Resources).am, rec.resource))
        => result = FALSE

\* A resource value constraint and an attribute presence constraint; the
\* resource map lacks the key while the attributes satisfy their constraint.
C3_Witness ==
    /\ phase = "called"
    /\ mp.Libraries = <<>>
    /\ mp.Resources = <<KeyValue(<<"a">>)>>
    /\ mp.Attributes = <<KeyPresent>>
    /\ rec.resource = EmptyMap
    /\ "k" \in DOMAIN rec.attributes
    /\ result = FALSE

\* C4: with exactly one library constraint that has a name and no version, and
\* no attribute or resource constraints, Match accepts exactly the records
\* whose scope name satisfies the name filter, whatever the scope version.
C4_NameOnlyLibrary ==
    (/\ phase = "called"
     /\ Len(mp.Libraries) = 1 /\ mp.Libraries[1].Version = <<>>
     /\ mp.Attributes = <<>> /\ mp.Resources = <<>>)
        => result = Matches(FilterOf(mp.Config, mp.Libraries[1].Name), rec.library.Name)

\* A scope with a non-empty version accepted on its name alone.
C4_Witness ==
    /\ phase = "called"
    /\ Len(mp.Libraries) = 1 /\ mp.Libraries[1].Version = <<>>
    /\ mp.Attributes = <<>> /\ mp.Resources = <<>>
    /\ rec.library.Version = <<"b", "a">>
    /\ result = TRUE

\* C5: with two or more library constraints, Match returns false when the
\* scope fails the name filter or the configured version filter of any one of
\* them, and the verdict is the same for every order of the constraints.
C5_AllLibrariesAnyOrder ==
    (phase = "called" /\ Len(mp.Libraries) >= 2) =>
        /\ (\E i \in 1..Len(mp.Libraries) :
                ~LibraryAccepts(mp.Config, mp.Libraries[i], rec.library))
              => result = FALSE
        /\ \A f \in Orderings(Len(matcher.libraries)) :
              LET perm == [matcher EXCEPT !.libraries =
                              [i \in 1..Len(matcher.libraries) |-> matcher.libraries[f[i]]]]
              IN  result = Match(perm, rec.attributes, rec.resource, rec.library)

\* Two different constraints of which the scope passes the first and fails
\* only the second.
C5_Witness ==
    /\ phase = "called"
    /\ Len(mp.Libraries) = 2
    /\ mp.Libraries[1] # mp.Libraries[2]
    /\ LibraryAccepts(mp.Config, mp.Libraries[1], rec.library)
    /\ ~LibraryAccepts(mp.Config, mp.Libraries[2], rec.library)
    /\ mp.Attributes = <<>> /\ mp.Resources = <<>>
    /\ result = FALSE

\* C6: NewMatcher is all-or-nothing: if any construction step fails it returns
\* a non-nil error together with the zero PropertiesMatcher; if none fails it
\* returns a nil error.
C6_AllOrNothing ==
    phase # "idle" =>
        IF AnyStepFails(mp)
        THEN err # NoError /\ matcher = ZeroMatcher
        ELSE err = NoError

\* A failure of the attribute constraints after two libraries were compiled.
C6_Witness ==
    /\ phase = "failed"
    /\ Len(mp.Libraries) = 2
    /\ FirstFailingStep(mp) = 2 * Len(mp.Libraries) + 1
    /\ matcher = ZeroMatcher

\* C7: the error of NewMatcher is the error of the first failing step, in the
\* order library name, library version (per library, in list order),
\* attributes, resources, wrapped in a context that names the field; the four
\* contexts are pairwise distinct.
C7_FirstFailureNamed ==
    /\ \A f, g \in {"library name", "library version", "attribute", "resource"} :
          FieldContext(f) = FieldContext(g) => f = g
    /\ (phase # "idle" /\ AnyStepFails(mp)) =>
          LET k == FirstFailingStep(mp)
          IN  /\ err.ctx = FieldContext(StepField(mp, k))
              /\ err.cause = StepCause(mp, k)
              /\ err.cause # NoCause

\* Both the attributes and the resources fail to compile, and the error is
\* that of the attributes.
C7_Witness ==
    /\ phase = "failed"
    /\ StepFails(mp, NumSteps(mp) - 1)
    /\ StepFails(mp, NumSteps(mp))
    /\ FirstFailingStep(mp) = NumSteps(mp) - 1
    /\ err.ctx = "error creating attribute filters"

C9_ConcurrentMatch ==
    /\ cm = NewMatcher(cmp).m
    /\ \A g \in Callers :
          /\ crec[g] = cpassed[g]
          /\ cpc[g] = "done" =>
                cret[g] = Match(NewMatcher(cmp).m, cpassed[g].attributes,
                                cpassed[g].resource, cpassed[g].library)

\* One caller has returned true while the other, on a different record, is in
\* the middle of the loop over two library constraints.
C9_Witness ==
    /\ Len(cm.libraries) = 2
    /\ cpc["g1"] = "done" /\ cret["g1"] = TRUE
    /\ cpc["g2"] = "loop" /\ ci["g2"] = 2
    /\ cpassed["g1"] # cpassed["g2"]

IdsIn(req) ==
    UNION {{req.streams[s].entries[e].id : e \in 1..Len(req.streams[s].entries)} :
              s \in 1..Len(req.streams)}

\* The names of the labels of the streams of a received request.
LabelNamesIn(req) ==
    UNION {{l[1] : l \in req.streams[s].labels} : s \in 1..Len(req.streams)}

\* The hint is there, on the resource or the record, and the attribute it
\* names is on neither.
HintedAttributeMissing(e) ==
    /\ HintedKey(e.attrs, e.res) # <<>>
    /\ HintedKey(e.attrs, e.res)[1] \notin DOMAIN e.res
    /\ HintedKey(e.attrs, e.res)[1] \notin DOMAIN e.attrs

BothCarryTenant(e) ==
    /\ hintTenant \in DOMAIN e.res /\ hintTenant \in DOMAIN e.attrs
    /\ e.res[hintTenant] \in DOMAIN e.res
    /\ e.attrs[hintTenant] \in DOMAIN e.attrs

C14_SkipScrapeAfterInitError ==
    IsPerfCounterInitError(lsSamplerErr) =>
        /\ lsStartRet = NilErr
        /\ skipScrape
        /\ lsPhase \in {"started", "stopped"}
        /\ lsScrapeRet = ScrapeReturn(NewMetrics, NoScrapeError)
        /\ lsLoadCalls = 0
        /\ lsStopCalls = 0
        /\ lsPhase = "stopped" => lsShutdownRet = NilErr

\* The sampler failed with a wrapped PerfCounterInitError, the scraper was
\* then scraped and shut down.
C14_Witness ==
    /\ lsSamplerErr = "wrapped PerfCounterInitError"
    /\ lsScrapes >= 1
    /\ lsPhase = "stopped"

====
